---- MODULE Spec2Model ----
(***************************************************************************)
(* Model of the id-mcp-reader server (src/src/index.ts): the process-wide  *)
(* namespace, the four tools and the asynchronous fetch pipeline.          *)
(*                                                                         *)
(* Strings are sequences of one-character strings, so that prefix tests,   *)
(* splitting, joining and reversal are computed as the JavaScript does.    *)
(***************************************************************************)
EXTENDS Integers, Sequences, FiniteSets, TLC

VARIABLES
    env,               \* process.env.RPC_URL: [set, val]
    currentNamespace,  \* let currentNamespace: string | null
    inv,               \* the tool invocations suspended at an await, per slot
    out                \* the response of the invocation that completed last

vars == <<env, currentNamespace, inv, out>>

---------------------------------------------------------------------------
(* Bounds *)

\* concurrently suspended id/idx invocations
MaxInFlight == 1

\* largest start_line argument
MaxStartLine == 4

\* longest record whose lines are sliced
MaxContentLen == 4

---------------------------------------------------------------------------
(* String literals *)

ID_PREFIX == <<"i", "d", ":">>
IDX_PREFIX == <<"i", "d", "x", ":">>
ETH == <<".", "e", "t", "h">>
DOT == "."
APOSTROPHE == "'"
NEWLINE == "\n"

\* a JavaScript string | null
Null == [isNull |-> TRUE, str |-> <<>>]
Str(s) == [isNull |-> FALSE, str |-> s]

\* !x for a string | null: null and "" are falsy
Falsy(x) == x.isNull \/ x.str = <<>>

---------------------------------------------------------------------------
(* String.prototype methods, as the handlers use them *)

startsWith(s, p) == Len(s) >= Len(p) /\ SubSeq(s, 1, Len(p)) = p

substring(s, n) == SubSeq(s, n + 1, Len(s))

includes(s, ch) == \E i \in 1..Len(s) : s[i] = ch

\* the least element of a non-empty set of numbers
Least(S) == CHOOSE i \in S : \A j \in S : i <= j

\* index of the first ch in s, 0 if none
indexOf(s, ch) ==
    LET at == {i \in 1..Len(s) : s[i] = ch}
    IN  IF at = {} THEN 0 ELSE Least(at)

\* s.split(ch): "" splits into [""], "a." into ["a", ""]
RECURSIVE split(_, _)
split(s, ch) ==
    LET i == indexOf(s, ch)
    IN  IF i = 0 THEN <<s>>
        ELSE <<SubSeq(s, 1, i - 1)>> \o split(SubSeq(s, i + 1, Len(s)), ch)

\* parts.join(ch)
RECURSIVE join(_, _)
join(parts, ch) ==
    IF Len(parts) = 0 THEN <<>>
    ELSE IF Len(parts) = 1 THEN parts[1]
    ELSE parts[1] \o <<ch>> \o join(Tail(parts), ch)

\* parts.reverse()
reverse(parts) == [i \in 1..Len(parts) |-> parts[Len(parts) + 1 - i]]

\* parts.slice(0, -1)
sliceButLast(parts) == SubSeq(parts, 1, Len(parts) - 1)

\* id.replace(/^(id:|idx:)/, ''): one prefix is removed, once
replacePrefix(id) ==
    IF startsWith(id, ID_PREFIX) THEN substring(id, Len(ID_PREFIX))
    ELSE IF startsWith(id, IDX_PREFIX) THEN substring(id, Len(IDX_PREFIX))
    ELSE id

\* s.replace(/^id:/, '')
replaceIdPrefix(s) ==
    IF startsWith(s, ID_PREFIX) THEN substring(s, Len(ID_PREFIX)) ELSE s

---------------------------------------------------------------------------
(* Errors and responses *)

InvalidParams == "InvalidParams"
InternalError == "InternalError"

MSG_RPC == "Please set your own RPC_URL."
MSG_PREFIX == "ID must start with 'id:' or 'idx:' prefix"
MSG_NO_NAMESPACE == "No namespace set for shorthand ID. Use id_set_namespace first."
MSG_EMPTY == "Invalid ID format. Cannot be empty."
MSG_NO_RESOLVER == "No resolver found for ENS name: "
MSG_NO_RECORD == "No root-context text record found for: "
MSG_FAILED == "Failed to resolve ENS name "
MSG_NS_PREFIX == "Namespace must start with 'id:' prefix"
MSG_NS_UNSET == "No namespace is currently set"

\* new McpError(code, msg + name + cause): name and cause are the interpolated parts
McpError(code, msg, name, cause) ==
    [ok |-> FALSE, code |-> code, msg |-> msg, name |-> name, cause |-> cause]

\* a value returned by a function that may throw
Return(v) == [ok |-> TRUE, val |-> v]

\* { content: [{ type: "text", text }] }
TextResponse(t) == [ok |-> TRUE, text |-> t]

HEADER_ID ==
    <<"-", "-", "-", " ", "I", "D", " ", "M", "e", "t", "a", "d", "a", "t",
      "a", " ", "-", "-", "-">>

HEADER_IDX ==
    <<"-", "-", "-", " ", "I", "D", "X", " ", "E", "x", "e", "c", "u", "t",
      "i", "o", "n", " ", "C", "o", "n", "t", "e", "x", "t", " ", "-", "-",
      "-">>

LABEL_ID ==
    <<"\n", "I", "D", ":", " ">>

LABEL_ENS ==
    <<"\n", "E", "N", "S", " ", "N", "a", "m", "e", ":", " ">>

LABEL_SOURCE ==
    <<"\n", "S", "o", "u", "r", "c", "e", ":", " ", "E", "N", "S", " ",
      "T", "e", "x", "t", " ", "R", "e", "c", "o", "r", "d", " ", "(", "r",
      "o", "o", "t", "-", "c", "o", "n", "t", "e", "x", "t", ")", "\n",
      "S", "t", "a", "r", "t", " ", "L", "i", "n", "e", ":", " ">>

LABEL_CONTENT ==
    <<"\n", "\n", "-", "-", "-", " ", "C", "o", "n", "t", "e", "n", "t",
      " ", "-", "-", "-", "\n">>

NAMESPACE_SET_TO ==
    <<"N", "a", "m", "e", "s", "p", "a", "c", "e", " ", "s", "e", "t", " ",
      "t", "o", ":", " ">>

DIGITS ==
    <<"0", "1", "2", "3", "4", "5", "6", "7", "8", "9">>

\* `${start_line}` for a non-negative integer
RECURSIVE numberToString(_)
numberToString(n) ==
    IF n < 10 THEN <<DIGITS[n + 1]>>
    ELSE numberToString(n \div 10) \o <<DIGITS[(n % 10) + 1]>>

\* the template literal of handleIdTool's response, kept as its interpolated
\* parts: the text is renderText of it
metadataText(header, id, ensName, start_line, finalContent) ==
    [header |-> header, id |-> id, ensName |-> ensName,
     startLine |-> start_line, content |-> finalContent]

renderText(m) ==
    m.header \o LABEL_ID \o m.id \o LABEL_ENS \o m.ensName \o LABEL_SOURCE
        \o numberToString(m.startLine) \o LABEL_CONTENT \o m.content

\* { content: [{ type: "text", text: renderText(m) }] }
BlockResponse(m) == [ok |-> TRUE, block |-> m]

---------------------------------------------------------------------------
(* idToEnsName: id:core.subname -> subname.core.eth *)

\* idToEnsName joining the parts in the order written
idToEnsName_Unreversed(id, ns) ==
    LET cleanId == replacePrefix(id)
        shorthand == startsWith(cleanId, <<APOSTROPHE>>)
        namespaceContent == replaceIdPrefix(ns.str)
        resolvedId ==
            IF shorthand
            THEN namespaceContent \o <<DOT>> \o substring(cleanId, 1)
            ELSE cleanId
        parts == split(resolvedId, DOT)
    IN  IF shorthand /\ Falsy(ns)
        THEN McpError(InvalidParams, MSG_NO_NAMESPACE, <<>>, "")
        ELSE IF Len(parts) < 1
        THEN McpError(InvalidParams, MSG_EMPTY, <<>>, "")
        ELSE Return(join(parts, DOT) \o ETH)

\* idToEnsName expanding the shorthand without looking whether a namespace is set
idToEnsName_Unchecked(id, ns) ==
    LET cleanId == replacePrefix(id)
        shorthand == startsWith(cleanId, <<APOSTROPHE>>)
        namespaceContent == replaceIdPrefix(ns.str)
        resolvedId ==
            IF shorthand
            THEN namespaceContent \o <<DOT>> \o substring(cleanId, 1)
            ELSE cleanId
        parts == split(resolvedId, DOT)
    IN  IF Len(parts) = 1
        THEN Return(parts[1] \o ETH)
        ELSE Return(join(reverse(parts), DOT) \o ETH)

idToEnsName(id, ns) ==
    LET cleanId == replacePrefix(id)
        shorthand == startsWith(cleanId, <<APOSTROPHE>>)
        namespaceContent == replaceIdPrefix(ns.str)
        resolvedId ==
            IF shorthand
            THEN namespaceContent \o <<DOT>> \o substring(cleanId, 1)
            ELSE cleanId
        parts == split(resolvedId, DOT)
    IN  IF shorthand /\ Falsy(ns)
        THEN McpError(InvalidParams, MSG_NO_NAMESPACE, <<>>, "")
        ELSE IF Len(parts) < 1
        THEN McpError(InvalidParams, MSG_EMPTY, <<>>, "")
        ELSE IF Len(parts) = 1
        THEN Return(parts[1] \o ETH)
        ELSE Return(join(reverse(parts), DOT) \o ETH)

(* parseIdAndUpdateNamespace: the value of currentNamespace after the call *)

\* parseIdAndUpdateNamespace keeping the first part only
parseIdAndUpdateNamespace_First(id, ns) ==
    LET cleanId == replacePrefix(id)
        parts == split(cleanId, DOT)
    IN  IF ~startsWith(cleanId, <<APOSTROPHE>>) /\ includes(cleanId, DOT)
           /\ Len(parts) >= 2
        THEN Str(parts[1])
        ELSE ns

\* parseIdAndUpdateNamespace without the test for a dot
parseIdAndUpdateNamespace_NoDot(id, ns) ==
    LET cleanId == replacePrefix(id)
        parts == split(cleanId, DOT)
    IN  IF ~startsWith(cleanId, <<APOSTROPHE>>)
        THEN Str(join(sliceButLast(parts), DOT))
        ELSE ns

parseIdAndUpdateNamespace(id, ns) ==
    LET cleanId == replacePrefix(id)
        parts == split(cleanId, DOT)
    IN  IF ~startsWith(cleanId, <<APOSTROPHE>>) /\ includes(cleanId, DOT)
           /\ Len(parts) >= 2
        THEN Str(join(sliceButLast(parts), DOT))
        ELSE ns

(* extractLines *)

\* extractLines without the startLine === 0 return, slicing one line late
extractLines_Late(content, startLine) ==
    LET lines == split(content, NEWLINE)
    IN  IF startLine + 1 >= Len(lines) THEN <<>>
        ELSE join(SubSeq(lines, startLine + 2, Len(lines)), NEWLINE)

\* extractLines slicing one line early
extractLines_Early(content, startLine) ==
    LET lines == split(content, NEWLINE)
    IN  IF startLine = 0 THEN content
        ELSE IF startLine >= Len(lines) THEN <<>>
        ELSE join(SubSeq(lines, startLine, Len(lines)), NEWLINE)

extractLines(content, startLine) ==
    LET lines == split(content, NEWLINE)
    IN  IF startLine = 0 THEN content
        ELSE IF startLine >= Len(lines) THEN <<>>
        ELSE join(SubSeq(lines, startLine + 1, Len(lines)), NEWLINE)

(* handleSetNamespace: [ns: the namespace afterwards, res: the response] *)

\* handleSetNamespace with a period requirement
handleSetNamespace_Period(namespace, ns) ==
    IF ~startsWith(namespace, ID_PREFIX) \/ ~includes(namespace, DOT)
    THEN [ns |-> ns, res |-> McpError(InvalidParams, MSG_NS_PREFIX, <<>>, "")]
    ELSE [ns |-> Str(replaceIdPrefix(namespace)),
          res |-> TextResponse(NAMESPACE_SET_TO \o namespace)]

handleSetNamespace(namespace, ns) ==
    IF ~startsWith(namespace, ID_PREFIX)
    THEN [ns |-> ns, res |-> McpError(InvalidParams, MSG_NS_PREFIX, <<>>, "")]
    ELSE [ns |-> Str(replaceIdPrefix(namespace)),
          res |-> TextResponse(NAMESPACE_SET_TO \o namespace)]

(* handleGetNamespace *)

handleGetNamespace(ns) ==
    IF Falsy(ns)
    THEN McpError(InvalidParams, MSG_NS_UNSET, <<>>, "")
    ELSE TextResponse(ID_PREFIX \o ns.str)

---------------------------------------------------------------------------
(* The execution hint of handleIdxTool *)

UPPER ==
    <<"A", "B", "C", "D", "E", "F", "G", "H", "I", "J", "K", "L", "M", "N",
      "O", "P", "Q", "R", "S", "T", "U", "V", "W", "X", "Y", "Z">>

LOWER ==
    <<"a", "b", "c", "d", "e", "f", "g", "h", "i", "j", "k", "l", "m", "n",
      "o", "p", "q", "r", "s", "t", "u", "v", "w", "x", "y", "z">>

lowerChar(c) ==
    IF \E i \in 1..Len(UPPER) : UPPER[i] = c
    THEN LOWER[CHOOSE i \in 1..Len(UPPER) : UPPER[i] = c]
    ELSE c

toLowerCase(s) == [i \in 1..Len(s) |-> lowerChar(s[i])]

\* index of the first occurrence of sub in s, 0 if none
search(s, sub) ==
    LET at == {i \in 1..(Len(s) - Len(sub) + 1) :
                  SubSeq(s, i, i + Len(sub) - 1) = sub}
    IN  IF at = {} THEN 0 ELSE Least(at)

\* s.includes(sub)
includesText(s, sub) == search(s, sub) # 0

HTML == <<"h", "t", "m", "l">>
JAVASCRIPT == <<"j", "a", "v", "a", "s", "c", "r", "i", "p", "t">>
BASH_SHEBANG == <<"#", "!", "/", "b", "i", "n", "/", "b", "a", "s", "h">>
BASH == <<"b", "a", "s", "h">>
SHELL == <<"s", "h", "e", "l", "l">>
PYTHON == <<"p", "y", "t", "h", "o", "n">>
PYTHON_SHEBANG ==
    <<"#", "!", "/", "u", "s", "r", "/", "b", "i", "n", "/", "e", "n", "v",
      " ", "p", "y", "t", "h", "o", "n">>
NODE == <<"n", "o", "d", "e">>
NPM == <<"n", "p", "m">>

SUGGEST_HTML == "Suggested execution: open filename.html (replace with your desired filename)"
SUGGEST_BASH == "Suggested execution: bash filename.sh (replace with your desired filename)"
SUGGEST_PYTHON == "Suggested execution: python filename.py (replace with your desired filename)"
SUGGEST_NODE == "Suggested execution: node filename.js (replace with your desired filename)"
SUGGEST_GENERIC == "Create the appropriate file and execute immediately"

\* the rules with python tested first
executionSuggestion_PythonFirst(contentText) ==
    LET lowerContent == toLowerCase(contentText)
    IN  IF includesText(lowerContent, PYTHON)
           \/ includesText(lowerContent, PYTHON_SHEBANG)
        THEN SUGGEST_PYTHON
        ELSE IF includesText(lowerContent, HTML) /\ includesText(lowerContent, JAVASCRIPT)
        THEN SUGGEST_HTML
        ELSE IF includesText(lowerContent, BASH_SHEBANG)
                \/ includesText(lowerContent, BASH)
                \/ includesText(lowerContent, SHELL)
        THEN SUGGEST_BASH
        ELSE IF includesText(lowerContent, NODE)
                \/ includesText(lowerContent, JAVASCRIPT)
                \/ includesText(lowerContent, NPM)
        THEN SUGGEST_NODE
        ELSE SUGGEST_GENERIC

executionSuggestion(contentText) ==
    LET lowerContent == toLowerCase(contentText)
    IN  IF includesText(lowerContent, HTML) /\ includesText(lowerContent, JAVASCRIPT)
        THEN SUGGEST_HTML
        ELSE IF includesText(lowerContent, BASH_SHEBANG)
                \/ includesText(lowerContent, BASH)
                \/ includesText(lowerContent, SHELL)
        THEN SUGGEST_BASH
        ELSE IF includesText(lowerContent, PYTHON)
                \/ includesText(lowerContent, PYTHON_SHEBANG)
        THEN SUGGEST_PYTHON
        ELSE IF includesText(lowerContent, NODE)
                \/ includesText(lowerContent, JAVASCRIPT)
                \/ includesText(lowerContent, NPM)
        THEN SUGGEST_NODE
        ELSE SUGGEST_GENERIC

\* originalText.replace('--- ID Metadata ---', '--- IDX Execution Context ---'):
\* the first occurrence is the header the text starts with, whatever follows it
relabel(m) ==
    IF search(renderText(m), HEADER_ID) = 1 /\ m.header = HEADER_ID
    THEN [m EXCEPT !.header = HEADER_IDX]
    ELSE m

\* the response of handleIdxTool: renderText(m), "--- Execution Ready ---",
\* "This content is prepared for immediate execution." and the suggestion
ExecutionResponse(m, suggestion) ==
    [ok |-> TRUE, block |-> m, suggestion |-> suggestion]

---------------------------------------------------------------------------
(* The name-resolution client (viem): normalize, getEnsResolver, readContract *)

MSG_NORMALIZE == "Invalid ENS name"
MSG_TRANSPORT == "HTTP request failed."
ROOT_CONTEXT == "root-context"
ADDRESS == <<"0", "x", "2", "3", "1", "b">>

\* a thrown Error that is no McpError
Throw(msg) == [ok |-> FALSE, code |-> "Error", msg |-> msg, name |-> <<>>, cause |-> ""]

isMcpError(e) == e.code \in {InvalidParams, InternalError}

\* normalize(ensName): a name with an empty label or a character that is not
\* allowed in a label is rejected, upper case is folded to lower case
normalize(ensName) ==
    LET labels == split(ensName, DOT)
        disallowed == {":", " ", "\n", "#", "!", "/"}
    IN  IF (\E i \in 1..Len(labels) : labels[i] = <<>>)
           \/ (\E i \in 1..Len(ensName) : ensName[i] \in disallowed)
        THEN Throw(MSG_NORMALIZE)
        ELSE Return(toLowerCase(ensName))

\* what getEnsResolver can answer: an address, nothing, or a transport failure
ResolverOutcomes == {Return(Str(ADDRESS)), Return(Null), Throw(MSG_TRANSPORT)}

\* what readContract can answer: the record, an empty record, or a failure
ReadOutcomes(contents) ==
    {Return(c) : c \in contents \cup {<<>>}} \cup {Throw(MSG_TRANSPORT)}

\* a catch block that wraps whatever was thrown
catchResolve_Wrap(ensName, error) ==
    McpError(InternalError, MSG_FAILED, ensName, error.msg)

\* the catch block of resolveEnsTextRecord
catchResolve(ensName, error) ==
    IF isMcpError(error) THEN error
    ELSE McpError(InternalError, MSG_FAILED, ensName, error.msg)

\* resolveEnsTextRecord going on to the read whatever the resolver is
afterGetEnsResolver_NoCheck(ensName, outcome) ==
    IF ~outcome.ok THEN catchResolve(ensName, outcome)
    ELSE Return(outcome.val.str)

\* resolveEnsTextRecord after getEnsResolver has answered
afterGetEnsResolver(ensName, outcome) ==
    IF ~outcome.ok THEN catchResolve(ensName, outcome)
    ELSE IF Falsy(outcome.val)
    THEN catchResolve(ensName, McpError(InvalidParams, MSG_NO_RESOLVER, ensName, ""))
    ELSE Return(outcome.val.str)

\* resolveEnsTextRecord after readContract has answered
afterReadContract(ensName, outcome) ==
    IF ~outcome.ok THEN catchResolve(ensName, outcome)
    ELSE IF outcome.val = <<>>
    THEN catchResolve(ensName, McpError(InvalidParams, MSG_NO_RECORD, ensName, ""))
    ELSE Return(outcome.val)

---------------------------------------------------------------------------
(* handleIdTool up to its first await *)

\* const { id, start_line = 0 } = args
DefaultStartLine == 0

PLACEHOLDER == "<YOUR-RPC-URL-HERE>"
RPC_REAL == "https://eth-mainnet.g.alchemy.com/v2/KEY"

\* process.env.RPC_URL || '<YOUR-RPC-URL-HERE>'
rpcUrlOf(e) == IF e.set /\ e.val # "" THEN e.val ELSE PLACEHOLDER

hasPrefix(id) == startsWith(id, ID_PREFIX) \/ startsWith(id, IDX_PREFIX)

\* handleIdTool testing the prefix before the RPC placeholder
handleIdToolSync_PrefixFirst(args, e, ns) ==
    IF ~hasPrefix(args.id)
    THEN [ns |-> ns, res |-> McpError(InvalidParams, MSG_PREFIX, <<>>, ""),
          normalizedName |-> <<>>]
    ELSE IF rpcUrlOf(e) = PLACEHOLDER
    THEN [ns |-> ns, res |-> McpError(InvalidParams, MSG_RPC, <<>>, ""),
          normalizedName |-> <<>>]
    ELSE
        LET updated == parseIdAndUpdateNamespace(args.id, ns)
            ensName == idToEnsName(args.id, updated)
            normalized == IF ensName.ok THEN normalize(ensName.val) ELSE ensName
        IN  IF ~ensName.ok
            THEN [ns |-> updated, res |-> ensName, normalizedName |-> <<>>]
            ELSE IF ~normalized.ok
            THEN [ns |-> updated, res |-> catchResolve(ensName.val, normalized),
                  normalizedName |-> <<>>]
            ELSE [ns |-> updated, res |-> ensName, normalizedName |-> normalized.val]

\* handleIdTool deriving the name without writing the namespace
handleIdToolSync_NoWrite(args, e, ns) ==
    IF rpcUrlOf(e) = PLACEHOLDER
    THEN [ns |-> ns, res |-> McpError(InvalidParams, MSG_RPC, <<>>, ""),
          normalizedName |-> <<>>]
    ELSE IF ~hasPrefix(args.id)
    THEN [ns |-> ns, res |-> McpError(InvalidParams, MSG_PREFIX, <<>>, ""),
          normalizedName |-> <<>>]
    ELSE
        LET ensName == idToEnsName(args.id, ns)
            normalized == IF ensName.ok THEN normalize(ensName.val) ELSE ensName
        IN  IF ~ensName.ok
            THEN [ns |-> ns, res |-> ensName, normalizedName |-> <<>>]
            ELSE IF ~normalized.ok
            THEN [ns |-> ns, res |-> catchResolve(ensName.val, normalized),
                  normalizedName |-> <<>>]
            ELSE [ns |-> ns, res |-> ensName, normalizedName |-> normalized.val]

\* handleIdTool without the test for the prefix
handleIdToolSync_NoPrefixCheck(args, e, ns) ==
    IF rpcUrlOf(e) = PLACEHOLDER
    THEN [ns |-> ns, res |-> McpError(InvalidParams, MSG_RPC, <<>>, ""),
          normalizedName |-> <<>>]
    ELSE
        LET updated == parseIdAndUpdateNamespace(args.id, ns)
            ensName == idToEnsName(args.id, updated)
            normalized == IF ensName.ok THEN normalize(ensName.val) ELSE ensName
        IN  IF ~ensName.ok
            THEN [ns |-> updated, res |-> ensName, normalizedName |-> <<>>]
            ELSE IF ~normalized.ok
            THEN [ns |-> updated, res |-> catchResolve(ensName.val, normalized),
                  normalizedName |-> <<>>]
            ELSE [ns |-> updated, res |-> ensName, normalizedName |-> normalized.val]

\* [ns: currentNamespace afterwards, res: the error thrown, or Return(ensName)
\*  when the call is suspended at getEnsResolver, normalizedName]
handleIdToolSync(args, e, ns) ==
    IF rpcUrlOf(e) = PLACEHOLDER
    THEN [ns |-> ns, res |-> McpError(InvalidParams, MSG_RPC, <<>>, ""),
          normalizedName |-> <<>>]
    ELSE IF ~hasPrefix(args.id)
    THEN [ns |-> ns, res |-> McpError(InvalidParams, MSG_PREFIX, <<>>, ""),
          normalizedName |-> <<>>]
    ELSE
        LET updated == parseIdAndUpdateNamespace(args.id, ns)
            ensName == idToEnsName(args.id, updated)
            normalized == IF ensName.ok THEN normalize(ensName.val) ELSE ensName
        IN  IF ~ensName.ok
            THEN [ns |-> updated, res |-> ensName, normalizedName |-> <<>>]
            ELSE IF ~normalized.ok
            THEN [ns |-> updated, res |-> catchResolve(ensName.val, normalized),
                  normalizedName |-> <<>>]
            ELSE [ns |-> updated, res |-> ensName, normalizedName |-> normalized.val]

---------------------------------------------------------------------------
(* State *)

\* the slots of the invocations suspended at an await
Slots == 1..MaxInFlight

Idle == [pc |-> "idle"]

NoArgs == [none |-> TRUE]

\* the step sent no response
NoResponse ==
    [tool |-> "none", args |-> NoArgs, res |-> [ok |-> TRUE],
     calls |-> <<>>, returns |-> <<>>, step |-> "none"]

\* a network call and, once it has returned, its answer
Call(fn, name, key) == [fn |-> fn, name |-> name, key |-> key]

\* the segments the inputs are built from
CORE == <<"c", "o", "r", "e">>
SUB == <<"s", "u", "b">>
IDREG == <<"i", "d", "r", "e", "g">>

Ids ==
    { ID_PREFIX \o CORE \o <<DOT>> \o SUB,                     \* id:core.sub
      IDX_PREFIX \o <<"a", DOT, "b", DOT, "c">>,               \* idx:a.b.c
      ID_PREFIX \o IDREG,                                      \* id:idreg
      ID_PREFIX \o <<APOSTROPHE>> \o SUB,                      \* id:'sub
      ID_PREFIX,                                               \* id:
      ID_PREFIX \o <<DOT, "a">>,                               \* id:.a
      CORE \o <<DOT>> \o SUB,                                  \* core.sub
      ID_PREFIX \o ID_PREFIX \o <<"a", DOT, "b">> }            \* id:id:a.b

Namespaces ==
    { ID_PREFIX \o CORE,                                       \* id:core
      ID_PREFIX \o <<"a", DOT, "b">>,                          \* id:a.b
      ID_PREFIX,                                               \* id:
      CORE,                                                    \* core
      IDX_PREFIX \o CORE,                                      \* idx:core
      ID_PREFIX \o ID_PREFIX \o <<"a">> }                      \* id:id:a

\* the identifiers resolve-execute is called with
IdxIds ==
    { IDX_PREFIX \o CORE \o <<DOT>> \o SUB,                    \* idx:core.sub
      IDX_PREFIX \o <<APOSTROPHE>> \o SUB,                     \* idx:'sub
      SUB }                                                    \* sub

Contents ==
    { <<"a", NEWLINE, "b">> }                                  \* two lines

Envs ==
    { [set |-> FALSE, val |-> ""], [set |-> TRUE, val |-> ""],
      [set |-> TRUE, val |-> PLACEHOLDER], [set |-> TRUE, val |-> RPC_REAL] }

Init ==
    /\ env \in Envs
    /\ currentNamespace = Null
    /\ inv = [p \in Slots |-> Idle]
    /\ out = NoResponse

---------------------------------------------------------------------------
(* Actions: one per handler step between two awaits *)

\* slot p sends its response; step names the code that produced it
Complete(p, tool, args, res, calls, returns, step) ==
    /\ out' = [tool |-> tool, args |-> args, res |-> res,
               calls |-> calls, returns |-> returns, step |-> step]
    /\ inv' = [inv EXCEPT ![p] = Idle]

\* handleIdTool from its entry to `await getEnsResolver`, as run `run` of `tool`
EnterIdTool(p, tool, args, run, result, calls, returns) ==
    LET r == handleIdToolSync(args, env, currentNamespace)
    IN  /\ currentNamespace' = r.ns
        /\ IF r.res.ok
           THEN /\ inv' = [inv EXCEPT ![p] =
                      [pc |-> "getEnsResolver", tool |-> tool, args |-> args,
                       run |-> run, ensName |-> r.res.val,
                       normalizedName |-> r.normalizedName, result |-> result,
                       calls |-> Append(calls,
                                    Call("getEnsResolver", r.normalizedName, "")),
                       returns |-> returns]]
                /\ out' = NoResponse
           ELSE Complete(p, tool, args, r.res, calls, returns, "handleIdTool")
        /\ UNCHANGED env

\* CallToolRequest of tool "id" or "idx" with { id, start_line }: handleIdTool,
\* for "idx" called by handleIdxTool, up to its first await
CallTool(p, tool, id, start_line) ==
    /\ inv[p].pc = "idle"
    /\ EnterIdTool(p, tool, [id |-> id, start_line |-> start_line],
                   1, <<>>, <<>>, <<>>)

\* CallToolRequest "id" with { id }
CallId(p) == \E id \in Ids : CallTool(p, "id", id, DefaultStartLine)

\* CallToolRequest "idx" with { id }
CallIdx(p) == \E id \in IdxIds : CallTool(p, "idx", id, DefaultStartLine)

\* getEnsResolver answers: resolveEnsTextRecord runs on to `await readContract`
GetEnsResolverReturns(p) ==
    \E outcome \in ResolverOutcomes :
        LET s == inv[p]
            r == afterGetEnsResolver(s.ensName, outcome)
            returns == Append(s.returns, outcome)
        IN  /\ s.pc = "getEnsResolver"
            /\ IF r.ok
               THEN /\ inv' = [inv EXCEPT ![p] =
                          [s EXCEPT !.pc = "readContract",
                                    !.calls = Append(s.calls,
                                        Call("readContract", s.normalizedName,
                                             ROOT_CONTEXT)),
                                    !.returns = returns]]
                    /\ out' = NoResponse
               ELSE Complete(p, s.tool, s.args, r, s.calls, returns,
                             "getEnsResolver")
            /\ UNCHANGED <<env, currentNamespace>>

\* the read step deriving the name for the response anew from the namespace
\* of the moment the read answers
ReadContractAnswers_Rederive(p, contents) ==
    \E outcome \in ReadOutcomes(contents) :
        LET s == inv[p]
            r == afterReadContract(s.ensName, outcome)
            returns == Append(s.returns, outcome)
            derived == idToEnsName(s.args.id, currentNamespace)
            ensName == IF derived.ok THEN derived.val ELSE s.ensName
            text == metadataText(HEADER_ID, s.args.id, ensName, s.args.start_line,
                                 extractLines(r.val, s.args.start_line))
        IN  /\ s.pc = "readContract"
            /\ IF r.ok /\ s.tool = "idx" /\ s.run = 1
               THEN EnterIdTool(p, s.tool, s.args, 2, text, s.calls, returns)
               ELSE /\ IF ~r.ok
                       THEN Complete(p, s.tool, s.args, r, s.calls, returns,
                                     "readContract")
                       ELSE IF s.tool = "id"
                       THEN Complete(p, s.tool, s.args, BlockResponse(text),
                                     s.calls, returns, "readContract")
                       ELSE Complete(p, s.tool, s.args,
                                ExecutionResponse(
                                    relabel(s.result),
                                    executionSuggestion(renderText(text))),
                                s.calls, returns, "readContract")
                    /\ UNCHANGED <<env, currentNamespace>>

\* readContract answers: handleIdTool runs to its end; for "id" that is the
\* response; for "idx" the awaiting handleIdxTool is resumed in the same turn
\* of the event loop and either calls handleIdTool again, which runs up to its
\* first await (run 1), or runs to its end (run 2)
ReadContractAnswers(p, contents) ==
    \E outcome \in ReadOutcomes(contents) :
        LET s == inv[p]
            r == afterReadContract(s.ensName, outcome)
            returns == Append(s.returns, outcome)
            text == metadataText(HEADER_ID, s.args.id, s.ensName, s.args.start_line,
                                 extractLines(r.val, s.args.start_line))
        IN  /\ s.pc = "readContract"
            /\ IF r.ok /\ s.tool = "idx" /\ s.run = 1
               THEN EnterIdTool(p, s.tool, s.args, 2, text, s.calls, returns)
               ELSE /\ IF ~r.ok
                       THEN Complete(p, s.tool, s.args, r, s.calls, returns,
                                     "readContract")
                       ELSE IF s.tool = "id"
                       THEN Complete(p, s.tool, s.args, BlockResponse(text),
                                     s.calls, returns, "readContract")
                       ELSE Complete(p, s.tool, s.args,
                                ExecutionResponse(
                                    relabel(s.result),
                                    executionSuggestion(renderText(text))),
                                s.calls, returns, "readContract")
                    /\ UNCHANGED <<env, currentNamespace>>

ReadContractReturns(p) == ReadContractAnswers(p, Contents)

\* CallToolRequest "id_set_namespace"
CallSetNamespace ==
    \E namespace \in Namespaces :
        LET r == handleSetNamespace(namespace, currentNamespace)
        IN  /\ currentNamespace' = r.ns
            /\ out' = [tool |-> "id_set_namespace",
                       args |-> [namespace |-> namespace], res |-> r.res,
                       calls |-> <<>>, returns |-> <<>>,
                       step |-> "handleSetNamespace"]
            /\ UNCHANGED <<env, inv>>

\* CallToolRequest "id_get_namespace"
CallGetNamespace ==
    /\ out' = [tool |-> "id_get_namespace", args |-> NoArgs,
               res |-> handleGetNamespace(currentNamespace),
               calls |-> <<>>, returns |-> <<>>, step |-> "handleGetNamespace"]
    /\ UNCHANGED <<env, currentNamespace, inv>>

Next ==
    \/ \E p \in Slots : CallId(p)
    \/ \E p \in Slots : CallIdx(p)
    \/ \E p \in Slots : GetEnsResolverReturns(p)
    \/ \E p \in Slots : ReadContractReturns(p)
    \/ CallSetNamespace
    \/ CallGetNamespace

Spec == Init /\ [][Next]_vars

---------------------------------------------------------------------------
(* resolve-plain with a start_line, over records of several lines *)

\* the records of up to MaxContentLen characters and line breaks
LineContents ==
    UNION {[1..n -> {"a", NEWLINE}] : n \in 1..MaxContentLen}

\* CallToolRequest "id" with { id, start_line }
CallIdFrom(p) ==
    \E start_line \in 0..MaxStartLine :
        CallTool(p, "id", ID_PREFIX \o CORE \o <<DOT>> \o SUB, start_line)

ReadContractReturnsLines(p) == ReadContractAnswers(p, LineContents)

NextLines ==
    \/ \E p \in Slots : CallIdFrom(p)
    \/ \E p \in Slots : GetEnsResolverReturns(p)
    \/ \E p \in Slots : ReadContractReturnsLines(p)

SpecLines == Init /\ [][NextLines]_vars

---------------------------------------------------------------------------
(* resolve-execute over records that carry the markers of the hint rules *)

SPACE == " "

HintContents ==
    { HTML \o <<SPACE>> \o JAVASCRIPT \o <<SPACE>> \o PYTHON,   \* html javascript python
      <<"H", "T", "M", "L", SPACE, "J", "a", "v", "a", "S", "c", "r", "i", "p", "t">>,
      HTML,                                                   \* html
      JAVASCRIPT,                                             \* javascript
      PYTHON \o <<SPACE>> \o BASH,                             \* python bash
      SHELL \o <<SPACE>> \o NODE,                              \* shell node
      PYTHON \o <<SPACE>> \o NPM,                              \* python npm
      <<"a">> }                                               \* no marker

\* the identifiers resolve-execute is called with: one without a marker, one
\* that is a marker
HintIds ==
    { IDX_PREFIX \o CORE \o <<DOT>> \o SUB,                    \* idx:core.sub
      IDX_PREFIX \o NPM }                                      \* idx:npm

CallIdxHint(p) == \E id \in HintIds : CallTool(p, "idx", id, DefaultStartLine)

ReadContractReturnsHint(p) == ReadContractAnswers(p, HintContents)

NextHint ==
    \/ \E p \in Slots : CallIdxHint(p)
    \/ \E p \in Slots : GetEnsResolverReturns(p)
    \/ \E p \in Slots : ReadContractReturnsHint(p)

SpecHint == Init /\ [][NextHint]_vars

---------------------------------------------------------------------------
(* resolve-execute invocations in flight together, over one record *)

\* one invocation more than Spec suspends
Pair == 1..(MaxInFlight + 1)

PairContents == { <<"a">> }

InitPair ==
    /\ env = [set |-> TRUE, val |-> RPC_REAL]
    /\ currentNamespace = Null
    /\ inv = [p \in Pair |-> Idle]
    /\ out = NoResponse

ReadContractReturnsPair(p) == ReadContractAnswers(p, PairContents)

NextPair ==
    \/ \E p \in Pair : CallIdxHint(p)
    \/ \E p \in Pair : GetEnsResolverReturns(p)
    \/ \E p \in Pair : ReadContractReturnsPair(p)

SpecPair == InitPair /\ [][NextPair]_vars

---------------------------------------------------------------------------
(* full-path resolutions in flight together, namespace-get looking on *)

\* the paths of the racing resolutions: core.sub and a.b.c
RacePaths == { CORE \o <<DOT>> \o SUB, <<"a", DOT, "b", DOT, "c">> }

CallIdRace(p) ==
    \E path \in RacePaths : CallTool(p, "id", ID_PREFIX \o path, DefaultStartLine)

CallIdxRace(p) ==
    \E path \in RacePaths : CallTool(p, "idx", IDX_PREFIX \o path, DefaultStartLine)

NextRace ==
    \/ \E p \in Pair : CallIdRace(p)
    \/ \E p \in Pair : CallIdxRace(p)
    \/ \E p \in Pair : GetEnsResolverReturns(p)
    \/ \E p \in Pair : ReadContractReturnsPair(p)
    \/ CallGetNamespace

SpecRace == InitPair /\ [][NextRace]_vars

---------------------------------------------------------------------------
(* What the properties speak about *)

\* the identifier without its scheme prefix
Remainder(x) ==
    IF startsWith(x, ID_PREFIX) THEN SubSeq(x, 4, Len(x)) ELSE SubSeq(x, 5, Len(x))

\* prefix followed by the ' marker
IsShorthand(x) ==
    hasPrefix(x) /\ Remainder(x) # <<>> /\ Remainder(x)[1] = APOSTROPHE

\* prefix followed by dot-separated segments
IsFullPath(x) == hasPrefix(x) /\ ~IsShorthand(x)

Segments(x) == split(Remainder(x), DOT)

\* sn.….s1 for the segments <<s1, …, sn>>
RECURSIVE ReversedDotted(_)
ReversedDotted(segs) ==
    IF Len(segs) = 1 THEN segs[1]
    ELSE ReversedDotted(Tail(segs)) \o <<DOT>> \o segs[1]

ExpectedName(x) == ReversedDotted(Segments(x)) \o ETH

\* the remainder up to its last dot: all segments except the last, dot-joined
ExpectedNamespace(x) ==
    LET r == Remainder(x)
        lastDot == CHOOSE i \in 1..Len(r) :
                       r[i] = DOT /\ \A j \in (i + 1)..Len(r) : r[j] # DOT
    IN  SubSeq(r, 1, lastDot - 1)

\* the endpoint configuration is the placeholder: RPC_URL unset, empty, or the
\* placeholder itself
PlaceholderEndpoint == ~env.set \/ env.val \in {"", PLACEHOLDER}

\* this step ran handleIdTool from its entry on identifier x and suspended it
\* in slot p at getEnsResolver
Entered(p, x) ==
    /\ inv[p].pc \in {"idle", "readContract"}
    /\ inv'[p].pc = "getEnsResolver"
    /\ inv'[p].args.id = x

\* this step ran handleIdTool from its entry on identifier x and it threw
\* before its first await
Threw(x) == out'.step = "handleIdTool" /\ out'.args.id = x

\* this step ran handleIdTool from its entry on identifier x
Resolved(x) == Threw(x) \/ \E p \in DOMAIN inv : Entered(p, x)

\* the external name this step derived for x, when it derived one
DerivedName(x) ==
    IF \E p \in DOMAIN inv : Entered(p, x)
    THEN inv'[CHOOSE p \in DOMAIN inv : Entered(p, x)].ensName
    ELSE out'.res.name

AllIds == Ids \cup IdxIds

---------------------------------------------------------------------------
(* C1 *)

\* C1: an invocation that is in flight, or has answered, on a full-path
\* identifier <<s1, …, sn>> carries the external name sn.….s1.eth (X.eth for the
\* single segment X)
C1_ExternalName ==
    /\ \A p \in DOMAIN inv :
          (inv[p].pc # "idle" /\ IsFullPath(inv[p].args.id))
              => inv[p].ensName = ExpectedName(inv[p].args.id)
    /\ (out.tool \in {"id", "idx"} /\ IsFullPath(out.args.id))
          => /\ out.res.ok => out.res.block.ensName = ExpectedName(out.args.id)
             /\ (~out.res.ok /\ out.step # "handleIdTool")
                   => out.res.name = ExpectedName(out.args.id)
             /\ (~out.res.ok /\ out.res.code = InternalError)
                   => out.res.name = ExpectedName(out.args.id)

\* a three-segment identifier was resolved: idx:a.b.c as c.b.a.eth
C1_Witness ==
    /\ out.tool = "id" /\ out.res.ok
    /\ out.args.id = IDX_PREFIX \o <<"a", DOT, "b", DOT, "c">>
    /\ out.res.block.ensName = <<"c", DOT, "b", DOT, "a">> \o ETH

---------------------------------------------------------------------------
(* C2 *)

\* C2: when resolve-plain with a full-path identifier and start offset 0 has
\* had its record read answered with a non-empty value V, it answers with the
\* identifier, the derived external name and exactly V, and the read was the
\* "root-context" record of that name
C2_EndToEnd ==
    (/\ out.tool = "id"
     /\ IsFullPath(out.args.id)
     /\ out.args.start_line = 0
     /\ Len(out.returns) = 2
     /\ out.returns[2].ok
     /\ out.returns[2].val # <<>>)
        => /\ out.res = BlockResponse(
                  [header |-> HEADER_ID, id |-> out.args.id,
                   ensName |-> ExpectedName(out.args.id), startLine |-> 0,
                   content |-> out.returns[2].val])
           /\ out.calls[2] = [fn |-> "readContract",
                              name |-> ExpectedName(out.args.id),
                              key |-> "root-context"]

\* id:core.sub was resolved to the two-line record of sub.core.eth
C2_Witness ==
    /\ out.tool = "id" /\ out.res.ok
    /\ out.args = [id |-> ID_PREFIX \o CORE \o <<DOT>> \o SUB, start_line |-> 0]
    /\ out.res.block.ensName = SUB \o <<DOT>> \o CORE \o ETH
    /\ out.res.block.content = <<"a", NEWLINE, "b">>
    /\ out.returns[2] = Return(<<"a", NEWLINE, "b">>)

---------------------------------------------------------------------------
(* C3 *)

\* C3: a step in which resolve-plain or resolve-execute parses a full-path
\* identifier of two or more segments, the endpoint being configured, leaves
\* the namespace equal to all segments except the last, dot-joined, and derives
\* the reversed name, whatever the namespace was before; so two parses of the
\* same identifier give the same name and the same namespace
C3_ParseSetsNamespace ==
    [][\A x \in AllIds :
          (Resolved(x) /\ ~PlaceholderEndpoint /\ IsFullPath(x)
              /\ Len(Segments(x)) >= 2)
             => /\ currentNamespace' = Str(ExpectedNamespace(x))
                /\ DerivedName(x) = ExpectedName(x)]_vars

\* idx:a.b.c has just been parsed and the namespace is a.b
C3_Witness ==
    /\ \E p \in DOMAIN inv :
          /\ inv[p].pc = "getEnsResolver"
          /\ inv[p].args.id = IDX_PREFIX \o <<"a", DOT, "b", DOT, "c">>
          /\ inv[p].calls = <<Call("getEnsResolver",
                                   <<"c", DOT, "b", DOT, "a">> \o ETH, "")>>
    /\ out = NoResponse
    /\ currentNamespace = Str(<<"a", DOT, "b">>)

---------------------------------------------------------------------------
(* C4 *)

\* C4: when namespace-set("id:" + N) with N non-empty has just succeeded, the
\* shorthand identifier id:'L parsed in the next step derives the external
\* name that the full path id:N.L derives
C4_ShorthandExpansion ==
    [][\A x \in AllIds :
          (/\ out.step = "handleSetNamespace" /\ out.res.ok
           /\ Len(out.args.namespace) > Len(ID_PREFIX)
           /\ ~PlaceholderEndpoint
           /\ IsShorthand(x) /\ Resolved(x))
             => LET N == SubSeq(out.args.namespace, 4, Len(out.args.namespace))
                    L == SubSeq(Remainder(x), 2, Len(Remainder(x)))
                    full == ID_PREFIX \o N \o <<DOT>> \o L
                IN  DerivedName(x) = idToEnsName(full, currentNamespace).val]_vars

---------------------------------------------------------------------------
(* C5 *)

\* C5: a resolve of a shorthand identifier while no namespace is set throws
\* the configuration error before its first await: no network call is issued
\* and no invocation is left suspended
C5_ShorthandUnset ==
    [][\A x \in AllIds :
          (currentNamespace.isNull /\ IsShorthand(x) /\ Resolved(x))
             => /\ Threw(x)
                /\ out'.res = McpError(InvalidParams,
                                  IF PlaceholderEndpoint THEN MSG_RPC
                                  ELSE MSG_NO_NAMESPACE, <<>>, "")
                /\ out'.calls = <<>>
                /\ inv' = inv]_vars

\* id:'sub was refused for the unset namespace
C5_Witness ==
    /\ currentNamespace.isNull
    /\ out.step = "handleIdTool"
    /\ out.args.id = ID_PREFIX \o <<APOSTROPHE>> \o SUB
    /\ out.res.msg = MSG_NO_NAMESPACE
    /\ out.calls = <<>>

---------------------------------------------------------------------------
(* C6 *)

\* C6: a step changes the namespace only if it is a successful namespace-set
\* or a resolve that parses a full path of two or more segments with the
\* endpoint configured
C6_Writers ==
    [][currentNamespace' # currentNamespace
          => \/ out'.step = "handleSetNamespace" /\ out'.res.ok
             \/ \E x \in AllIds :
                   /\ Resolved(x) /\ ~PlaceholderEndpoint
                   /\ IsFullPath(x) /\ Len(Segments(x)) >= 2]_vars

\* the single segment id:idreg has just been parsed under the namespace core,
\* which is still there
C6_Witness ==
    /\ \E p \in DOMAIN inv :
          /\ inv[p].pc = "getEnsResolver"
          /\ inv[p].args.id = ID_PREFIX \o IDREG
          /\ inv[p].run = 1
    /\ out = NoResponse
    /\ currentNamespace = Str(CORE)

---------------------------------------------------------------------------
(* C7 *)

\* C7: namespace-get directly after a successful namespace-set(X) returns X
C7_RoundTrip ==
    [][(/\ out.step = "handleSetNamespace" /\ out.res.ok
        /\ out'.step = "handleGetNamespace")
          => /\ out'.res.ok
             /\ out'.res.text = out.args.namespace]_vars

---------------------------------------------------------------------------
(* C8 *)

\* C8: namespace-set answers an input without the id: prefix with the
\* validation error, and an input id:R with R non-empty with success, after
\* which the namespace is R
C8_SetNamespace ==
    out.step = "handleSetNamespace"
        => LET x == out.args.namespace
           IN  /\ ~startsWith(x, ID_PREFIX)
                     => out.res = McpError(InvalidParams, MSG_NS_PREFIX, <<>>, "")
               /\ (startsWith(x, ID_PREFIX) /\ Len(x) > Len(ID_PREFIX))
                     => /\ out.res.ok
                        /\ currentNamespace = Str(SubSeq(x, 4, Len(x)))

\* the single segment id:core was stored as core
C8_Witness ==
    /\ out.step = "handleSetNamespace"
    /\ out.args.namespace = ID_PREFIX \o CORE
    /\ out.res.ok
    /\ currentNamespace = Str(CORE)

---------------------------------------------------------------------------
(* C9 *)

\* C9: namespace-get fails exactly when no value has ever been stored, returns
\* the stored value with id: re-attached otherwise, and a shorthand is refused
\* as unset only when no value has ever been stored
C9_NeverCleared ==
    [][/\ out'.step = "handleGetNamespace"
          => /\ ~out'.res.ok <=> currentNamespace'.isNull
             /\ out'.res.ok => out'.res.text = ID_PREFIX \o currentNamespace'.str
       /\ \A x \in AllIds :
             (Threw(x) /\ out'.res.msg = MSG_NO_NAMESPACE)
                => currentNamespace.isNull]_vars

---------------------------------------------------------------------------
(* C10 *)

\* C10: with the placeholder endpoint every resolve-plain and resolve-execute
\* throws the RPC configuration error before anything else: whatever the
\* identifier, no invocation is suspended, no network call is issued and the
\* namespace is left as it was
C10_EntryGate ==
    [][PlaceholderEndpoint
          => /\ \A p \in DOMAIN inv : inv'[p].pc = "idle"
             /\ out'.tool \in {"id", "idx"}
                   => /\ out'.res = McpError(InvalidParams, MSG_RPC, <<>>, "")
                      /\ out'.step = "handleIdTool"
                      /\ out'.calls = <<>>
                      /\ currentNamespace' = currentNamespace]_vars

\* resolve-execute of the prefix-less sub was refused for the placeholder
C10_Witness ==
    /\ PlaceholderEndpoint
    /\ out.tool = "idx"
    /\ out.args.id = SUB
    /\ out.res.msg = MSG_RPC
    /\ out.calls = <<>>

---------------------------------------------------------------------------
(* C11 *)

\* C11 as stated: a resolve of an identifier without a scheme prefix throws the
\* missing-prefix error whatever the endpoint configuration is
C11_PrefixBeforeGate ==
    [][\A x \in AllIds :
          (Resolved(x) /\ ~hasPrefix(x))
             => out'.res = McpError(InvalidParams, MSG_PREFIX, <<>>, "")]_vars

\* C11: a resolve of an identifier without a scheme prefix throws before it
\* parses anything: the RPC configuration error when the endpoint is the
\* placeholder, the missing-prefix error when it is configured; the namespace
\* stays as it was, no call is issued and nothing is suspended
C11_GateBeforePrefix ==
    [][\A x \in AllIds :
          (Resolved(x) /\ ~hasPrefix(x))
             => /\ Threw(x)
                /\ out'.res = McpError(InvalidParams,
                                  IF PlaceholderEndpoint THEN MSG_RPC
                                  ELSE MSG_PREFIX, <<>>, "")
                /\ out'.calls = <<>>
                /\ currentNamespace' = currentNamespace
                /\ inv' = inv]_vars

\* resolve-plain of the prefix-less core.sub was refused for the placeholder
C11_Witness ==
    /\ PlaceholderEndpoint
    /\ out.tool = "id"
    /\ out.args.id = CORE \o <<DOT>> \o SUB
    /\ out.res = McpError(InvalidParams, MSG_RPC, <<>>, "")

---------------------------------------------------------------------------
(* C12 *)

\* C12: with the endpoint configured, resolve-plain and resolve-execute of an
\* identifier that starts with neither id: nor idx: throw the missing-prefix
\* validation error without a network call
C12_MissingPrefix ==
    [][\A x \in AllIds :
          (Resolved(x) /\ ~PlaceholderEndpoint /\ ~hasPrefix(x))
             => /\ Threw(x)
                /\ out'.tool \in {"id", "idx"}
                /\ out'.res = McpError(InvalidParams, MSG_PREFIX, <<>>, "")
                /\ out'.calls = <<>>
                /\ \A p \in DOMAIN inv : inv'[p] = inv[p]]_vars

\* resolve-execute of the prefix-less sub was refused, the endpoint configured
C12_Witness ==
    /\ ~PlaceholderEndpoint
    /\ out.tool = "idx"
    /\ out.args.id = SUB
    /\ out.res.msg = MSG_PREFIX
    /\ out.calls = <<>>

---------------------------------------------------------------------------
(* C13 *)

\* C13: a resolve of exactly id: or idx:, the endpoint configured, throws a
\* validation error, and neither a name is derived nor a call issued
C13_EmptyRemainder ==
    [][\A x \in AllIds :
          (Resolved(x) /\ ~PlaceholderEndpoint /\ hasPrefix(x)
              /\ Remainder(x) = <<>>)
             => /\ Threw(x)
                /\ out'.res.code = InvalidParams
                /\ out'.res.name = <<>>
                /\ out'.calls = <<>>]_vars

---------------------------------------------------------------------------
(* C14 *)

\* C14: the response of an invocation that ends in its fetch is decided by the
\* answer to the fetch's last call: no resolver gives the validation
\* error "no resolver found", an empty record the validation error "no record
\* found", a transport failure the internal error carrying the failure's
\* message, and a non-empty record is handed on unchanged
C14_FetchOutcomes ==
    out.step \in {"getEnsResolver", "readContract"}
        => LET last == out.returns[Len(out.returns)]
               ofCall == out.calls[Len(out.returns)].fn
           IN  /\ (ofCall = "getEnsResolver" /\ last.ok)
                     => (/\ Falsy(last.val)
                         /\ ~out.res.ok
                         /\ out.res.code = InvalidParams
                         /\ out.res.msg = MSG_NO_RESOLVER
                         /\ out.res.cause = "")
               /\ (ofCall = "readContract" /\ last.ok /\ last.val = <<>>)
                     => (/\ ~out.res.ok
                         /\ out.res.code = InvalidParams
                         /\ out.res.msg = MSG_NO_RECORD
                         /\ out.res.cause = "")
               /\ ~last.ok
                     => (/\ ~out.res.ok
                         /\ out.res.code = InternalError
                         /\ out.res.msg = MSG_FAILED
                         /\ out.res.cause = last.msg)
               /\ (ofCall = "readContract" /\ last.ok /\ last.val # <<>>)
                     => (/\ out.res.ok
                         /\ out.tool = "id" => out.res.block.content = last.val
                         /\ out.tool = "idx"
                               => out.res.block.content = out.returns[2].val)
               /\ (~out.res.ok /\ IsFullPath(out.args.id))
                     => out.res.name = ExpectedName(out.args.id)

\* the record read of id:core.sub failed at transport level and the caller got
\* the internal error with the failure's message
C14_Witness ==
    /\ out.tool = "id"
    /\ out.args.id = ID_PREFIX \o CORE \o <<DOT>> \o SUB
    /\ Len(out.returns) = 2
    /\ out.returns[2] = Throw(MSG_TRANSPORT)
    /\ out.res = McpError(InternalError, MSG_FAILED, SUB \o <<DOT>> \o CORE \o ETH,
                          MSG_TRANSPORT)

---------------------------------------------------------------------------
(* C15 *)

\* C15: an invocation refused because normalize rejected the derived name
\* gets a validation error, and no call was issued for it
C15_NormalizeValidation ==
    (out.tool \in {"id", "idx"} /\ ~out.res.ok /\ out.res.cause = MSG_NORMALIZE)
        => /\ out.res.code = InvalidParams
           /\ out.step = "handleIdTool"
           /\ Len(out.calls) = Len(out.returns)

---------------------------------------------------------------------------
(* C16 *)

\* the positions of the line breaks of c
Breaks(c) == {i \in 1..Len(c) : c[i] = NEWLINE}

\* c from its n-th line on, the lines counted from 0: what follows the n-th
\* line break, nothing when c has no n-th line
FromLine(c, n) ==
    IF Cardinality(Breaks(c)) < n THEN <<>>
    ELSE LET at == CHOOSE i \in Breaks(c) :
                       Cardinality({j \in Breaks(c) : j <= i}) = n
         IN  SubSeq(c, at + 1, Len(c))

\* C16: the content resolve-plain answers with is the record unchanged for
\* startLine 0, empty when startLine is at least the number of lines, and the
\* lines from startLine on otherwise; so is extractLines of the empty record
C16_LineSlicing ==
    /\ (out.tool = "id" /\ out.res.ok)
          => LET c == out.returns[2].val
                 n == out.args.start_line
             IN  /\ out.res.block.startLine = n
                 /\ out.res.block.content = IF n = 0 THEN c ELSE FromLine(c, n)
    /\ \A n \in 0..MaxStartLine : extractLines(<<>>, n) = <<>>

\* line 1 on of the three lines "a", "" and "a" was answered: "\na"
C16_Witness ==
    /\ out.tool = "id" /\ out.res.ok
    /\ out.args.start_line = 1
    /\ out.returns[2].val = <<"a", NEWLINE, NEWLINE, "a">>
    /\ out.res.block.content = <<NEWLINE, "a">>

---------------------------------------------------------------------------
(* C17 *)

\* the marker m occurs in the text, letter case apart
Marks(text, m) ==
    \E i \in 1..(Len(text) - Len(m) + 1) :
        \A k \in 1..Len(m) : lowerChar(text[i + k - 1]) = m[k]

\* the rules in their order: a rule matches when all the markers of one of its
\* alternatives occur
HintRules ==
    << [hint |-> SUGGEST_HTML, alts |-> {{HTML, JAVASCRIPT}}],
       [hint |-> SUGGEST_BASH, alts |-> {{BASH_SHEBANG}, {BASH}, {SHELL}}],
       [hint |-> SUGGEST_PYTHON, alts |-> {{PYTHON}, {PYTHON_SHEBANG}}],
       [hint |-> SUGGEST_NODE, alts |-> {{NODE}, {JAVASCRIPT}, {NPM}}] >>

Matching(text) ==
    {i \in 1..Len(HintRules) :
        \E alt \in HintRules[i].alts : \A m \in alt : Marks(text, m)}

\* the hint of the first rule that matches, the generic hint when none does
FirstRule(text) ==
    IF Matching(text) = {} THEN SUGGEST_GENERIC
    ELSE HintRules[Least(Matching(text))].hint

\* resolve-execute has answered successfully
IdxAnswered == out.tool = "idx" /\ out.res.ok

\* the text the hint was chosen from: the response of the second fetch
Sniffed ==
    renderText(metadataText(HEADER_ID, out.args.id, ExpectedName(out.args.id),
                            out.args.start_line, out.returns[4].val))

\* C17: the one hint of a resolve-execute response is that of the first
\* matching rule, letter case apart; a record with html and javascript gets
\* the HTML hint whatever else it holds; and for an identifier that holds no
\* marker the rules are decided by the record
C17_HintPrecedence ==
    IdxAnswered
        => LET content == out.returns[4].val
           IN  /\ out.res.suggestion = FirstRule(Sniffed)
               /\ (Marks(content, HTML) /\ Marks(content, JAVASCRIPT))
                     => out.res.suggestion = SUGGEST_HTML
               /\ Matching(out.args.id) = {}
                     => out.res.suggestion = FirstRule(content)

\* the record "html javascript python" of idx:core.sub got the HTML hint
C17_Witness ==
    /\ IdxAnswered
    /\ out.args.id = IDX_PREFIX \o CORE \o <<DOT>> \o SUB
    /\ out.returns[4].val = HTML \o <<SPACE>> \o JAVASCRIPT \o <<SPACE>> \o PYTHON
    /\ out.res.suggestion = SUGGEST_HTML

---------------------------------------------------------------------------
(* C18 *)

\* C18: two resolve-execute invocations that answer one after the other, both
\* successfully, from the same fetched records and the same start offset,
\* carry the same hint
C18_HintPurity ==
    [][(/\ IdxAnswered
        /\ out'.tool = "idx" /\ out'.res.ok
        /\ out'.returns[2] = out.returns[2]
        /\ out'.returns[4] = out.returns[4]
        /\ out'.args.start_line = out.args.start_line)
          => out'.res.suggestion = out.res.suggestion]_vars

---------------------------------------------------------------------------
(* C19 *)

\* the answer to the j-th call lets the fetch go on: a resolver address for a
\* resolution, a non-empty record for a read
GoesOn(answer, j) ==
    /\ answer.ok
    /\ j % 2 = 1 => ~Falsy(answer.val)
    /\ j % 2 = 0 => answer.val # <<>>

\* the calls and their answers are those of at most `runs` fetches one after
\* the other: each fetch is one resolution and then at most one read of
\* "root-context" for the same name, a call is issued only when every earlier
\* call got an answer that lets the fetch go on, and none is repeated
OneRoundTrip(calls, returns, runs) ==
    /\ Len(calls) <= 2 * runs
    /\ Len(returns) <= Len(calls)
    /\ Len(calls) <= Len(returns) + 1
    /\ \A i \in 1..Len(calls) :
          /\ i % 2 = 1 => calls[i].fn = "getEnsResolver"
          /\ i % 2 = 0 => /\ calls[i].fn = "readContract"
                          /\ calls[i].key = "root-context"
                          /\ calls[i].name = calls[i - 1].name
          /\ \A j \in 1..(i - 1) : GoesOn(returns[j], j)

\* C19: every invocation, suspended or answered, has issued per fetch one
\* resolution and then at most one read, the read only after the resolution
\* gave an address; an answered one was answered on its last call's answer,
\* and a successful one has issued exactly the resolution and the read of each
\* of its fetches
C19_OneRoundTrip ==
    /\ \A p \in DOMAIN inv :
          inv[p].pc # "idle"
             => OneRoundTrip(inv[p].calls, inv[p].returns,
                             IF inv[p].tool = "id" THEN 1 ELSE inv[p].run)
    /\ out.tool \in {"id", "idx"}
          => /\ OneRoundTrip(out.calls, out.returns,
                             IF out.tool = "id" THEN 1 ELSE 2)
             /\ Len(out.returns) = Len(out.calls)
             /\ out.res.ok
                   => /\ Len(out.calls) = IF out.tool = "id" THEN 2 ELSE 4
                      /\ \A j \in 1..Len(out.returns) : GoesOn(out.returns[j], j)

\* resolve-plain of id:idreg got no resolver and was answered after that one
\* call, without a read
C19_Witness ==
    /\ out.tool = "id"
    /\ out.args.id = ID_PREFIX \o IDREG
    /\ out.calls = <<Call("getEnsResolver", IDREG \o ETH, "")>>
    /\ out.returns = <<Return(Null)>>
    /\ ~out.res.ok

---------------------------------------------------------------------------
(* C20 *)

\* C20: when resolve-execute, its first fetch done, runs handleIdTool again,
\* whatever other invocations ran while the first fetch was suspended, the
\* second run derives the name the first run derived and goes on to fetch it
C20_SameNameTwice ==
    [][\A p \in DOMAIN inv :
          (/\ inv[p].pc = "readContract" /\ inv[p].tool = "idx" /\ inv[p].run = 1
           /\ inv'[p] # inv[p]
           /\ out'.step # "readContract")
             => /\ inv'[p].pc = "getEnsResolver"
                /\ inv'[p].run = 2
                /\ inv'[p].ensName = inv[p].ensName]_vars

---------------------------------------------------------------------------
(* C22 *)

\* C22: the stored namespace, when there is one, begins with neither id: nor
\* idx:
C22_NoSchemeTag ==
    ~currentNamespace.isNull
        => /\ ~startsWith(currentNamespace.str, ID_PREFIX)
           /\ ~startsWith(currentNamespace.str, IDX_PREFIX)

---------------------------------------------------------------------------
(* C21 *)

\* no invocation is suspended after this step
AllDone == \A p \in DOMAIN inv : inv'[p].pc = "idle"

\* this step answered an invocation from its fetch
Finished == out'.step \in {"getEnsResolver", "readContract"}

\* C21 as stated: when a full-path resolution finishes and none is left
\* suspended, the namespace is the one that resolution wrote
C21_LastFinishedWins ==
    [][(Finished /\ AllDone)
          => currentNamespace' = Str(ExpectedNamespace(out'.args.id))]_vars

\* slot p entered handleIdTool in this step, parsed its identifier and was
\* suspended at its first call
Parsed(p) ==
    /\ inv[p].pc \in {"idle", "readContract"}
    /\ inv'[p].pc = "getEnsResolver"

\* C21: the namespace is written where a resolution parses its identifier, on
\* entering handleIdTool, and nowhere else: a step that parses a full path
\* leaves that path's namespace, the step that finishes a resolution leaves the
\* namespace as it was, and namespace-get answers with what is stored; so
\* after two interleaved resolutions the namespace is that of the one that
\* parsed last
C21_LastParsedWins ==
    [][/\ \A p \in DOMAIN inv :
             Parsed(p)
                => currentNamespace' = Str(ExpectedNamespace(inv'[p].args.id))
       /\ Finished => currentNamespace' = currentNamespace
       /\ (~(\E p \in DOMAIN inv : Parsed(p)) /\ out'.step # "handleIdTool")
             => currentNamespace' = currentNamespace
       /\ (out'.step = "handleGetNamespace" /\ ~Falsy(currentNamespace))
             => out'.res = TextResponse(ID_PREFIX \o currentNamespace.str)]_vars

\* id:core.sub has finished last, successfully, nothing is suspended, and the
\* namespace is a.b, which the resolution of a.b.c wrote after core was written
C21_Witness ==
    /\ \A p \in DOMAIN inv : inv[p].pc = "idle"
    /\ out.step = "readContract" /\ out.res.ok
    /\ out.args.id = ID_PREFIX \o CORE \o <<DOT>> \o SUB
    /\ currentNamespace = Str(<<"a", DOT, "b">>)

---------------------------------------------------------------------------
(* C23 *)

\* slot p alone is suspended, at the resolution it issued in the last step
JustEntered(p) ==
    /\ out = NoResponse
    /\ inv[p].pc = "getEnsResolver"
    /\ \A q \in DOMAIN inv \ {p} : inv[q].pc = "idle"

\* a full path of two or more segments
IsLongPath(x) == IsFullPath(x) /\ Len(Segments(x)) >= 2

\* C23: the step in which a resolve of a full path of two or more segments
\* issues its resolution has written the path's namespace; namespace-get
\* handled while that call is outstanding answers with it; and the step that
\* ends a fetch in failure leaves the namespace as it is
C23_WrittenBeforeFetch ==
    [][/\ \A p \in DOMAIN inv :
             (Parsed(p) /\ IsLongPath(inv'[p].args.id))
                => /\ currentNamespace' = Str(ExpectedNamespace(inv'[p].args.id))
                   /\ Len(inv'[p].calls) = Len(inv'[p].returns) + 1
                   /\ inv'[p].calls[Len(inv'[p].calls)].fn = "getEnsResolver"
       /\ \A p \in DOMAIN inv :
             (/\ JustEntered(p) /\ IsLongPath(inv[p].args.id)
              /\ out'.step = "handleGetNamespace")
                => /\ out'.res = TextResponse(
                                    ID_PREFIX \o ExpectedNamespace(inv[p].args.id))
                   /\ inv'[p] = inv[p]
       /\ (Finished /\ ~out'.res.ok) => currentNamespace' = currentNamespace]_vars

\* the read for id:core.sub gave no record, the resolve failed, and the
\* namespace core it wrote is in place
C23_Witness ==
    /\ out.tool = "id"
    /\ out.args.id = ID_PREFIX \o CORE \o <<DOT>> \o SUB
    /\ out.step = "readContract"
    /\ out.returns[2] = Return(<<>>)
    /\ out.res.msg = MSG_NO_RECORD
    /\ currentNamespace = Str(CORE)

---------------------------------------------------------------------------
(* C24 *)

\* the name of identifier x under the namespace ns: the reversed path, the
\* shorthand first expanded with ns
NameAtStart(x, ns) ==
    IF IsShorthand(x)
    THEN LET leaf == SubSeq(Remainder(x), 2, Len(Remainder(x)))
         IN  ReversedDotted(split(replaceIdPrefix(ns.str) \o <<DOT>> \o leaf, DOT))
                 \o ETH
    ELSE ExpectedName(x)

\* C24: the name a resolve-plain invocation fetches and answers with is the
\* name of its identifier under the namespace of the state it starts in: it
\* is derived in the step that starts the invocation, every call of the
\* invocation is for it, and the response carries it, whatever steps of other
\* invocations come in between
C24_NameAtStart ==
    [][/\ \A p \in DOMAIN inv :
             /\ (inv[p].pc = "idle" /\ inv'[p].pc # "idle" /\ inv'[p].tool = "id")
                   => LET name == NameAtStart(inv'[p].args.id, currentNamespace)
                      IN  /\ inv'[p].ensName = name
                          /\ inv'[p].calls =
                                 <<Call("getEnsResolver", toLowerCase(name), "")>>
             /\ (inv[p].pc # "idle" /\ inv[p].tool = "id" /\ inv'[p] # inv[p])
                   => IF inv'[p].pc # "idle"
                      THEN /\ inv'[p].args = inv[p].args
                           /\ inv'[p].ensName = inv[p].ensName
                           /\ \A i \in 1..Len(inv'[p].calls) :
                                 inv'[p].calls[i].name = inv[p].normalizedName
                      ELSE /\ out'.args = inv[p].args
                           /\ out'.res.ok
                                 => /\ out'.res.block.ensName = inv[p].ensName
                                    /\ out'.res.block.id = inv[p].args.id
                           /\ ~out'.res.ok => out'.res.name = inv[p].ensName
                           /\ \A i \in 1..Len(out'.calls) :
                                 out'.calls[i].name = inv[p].normalizedName
       /\ (/\ out'.tool = "id" /\ out'.step = "handleIdTool"
           /\ out'.res.code = InternalError)
             => out'.res.name = NameAtStart(out'.args.id, currentNamespace)]_vars

\* id:'sub was answered with sub.core.eth, the name under the namespace core
\* it started in, the namespace being a.b by now
C24_Witness ==
    /\ out.tool = "id" /\ out.res.ok
    /\ out.args.id = ID_PREFIX \o <<APOSTROPHE>> \o SUB
    /\ out.res.block.ensName = SUB \o <<DOT>> \o CORE \o ETH
    /\ currentNamespace = Str(<<"a", DOT, "b">>)

====
